---- MODULE Spec2Model ----
(***************************************************************************)
(* A model of the Yahoo Finance news crawler: the listing stage, the two   *)
(* deduplication phases, the bounded-concurrency enrichment scheduler and  *)
(* the hand-off to the store (src/yahoo_news_crawler.py,                   *)
(* src/supabase_manager.py).                                               *)
(*                                                                         *)
(* Article dicts are objects: `heap` holds them and every Python list      *)
(* (self.articles, all_articles, new_articles, articles_to_process) is a   *)
(* sequence of references (indices into heap), so that aliasing between    *)
(* the lists is kept.  Links and titles are abstract values 1..NLinks and  *)
(* 1..NTitles.  print() calls are not modelled.                            *)
(***************************************************************************)
EXTENDS Integers, Sequences, FiniteSets, TLC

\* ------------------------------------------------------------------ bounds
NLinks == 2
NTitles == 2
MaxItems == 2
MaxLen == 3
MaxTasks == 3
MaxConcurrent == 2
MaxCap == 1
MaxRows == 1
MaxText == 3
MaxHours == 3
MaxTime == 5
MaxPars == 1
MaxLis == 2

\* ------------------------------------------------------ program constants
NumUrls == 3
CiConcurrentLimit == 3
LocalConcurrentLimit == 5
MinFragment == 10
MinTitle == 10
NoLimit == 0 - 1

Links == 1..NLinks
Titles == 1..NTitles
Items == [link : Links, title : Titles]

SeqsUpTo(S, n) == UNION {[1..k -> S] : k \in 0..n}

VARIABLES
    pc,                  \* position of the orchestrating flow of control
    method,              \* "crawl4ai" | "fallback" | "direct" | "pure" | "main"
    heap,                \* the article dicts, by reference
    self_articles,       \* self.articles
    all_articles,        \* local all_articles
    new_articles,        \* local new_articles
    articles_to_process, \* local articles_to_process / parameter articles
    srcIdx,              \* index into self.urls of the source handled next
    connected,           \* supabase_manager and supabase_manager.is_connected()
    is_ci,               \* self.is_ci_environment
    max_articles,        \* parameter max_articles (NoLimit stands for None)
    storeRows,           \* rows of the news_items table
    storeHealthy,        \* whether a select on the table succeeds
    existing_urls,       \* local existing_urls
    existing_titles,     \* local existing_titles
    dedupQuery,          \* what became of the existing-key query of this run
    max_concurrent,      \* parameter max_concurrent of the scheduler
    sem,                 \* value of the asyncio.Semaphore
    task,                \* per task: its position and what its fetch gave
    insertCalls,         \* batches given to insert_articles(...)
    insertExecuted,      \* times the body of insert_articles actually ran
    saveReport,          \* what the run reported about the save
    result,              \* value returned by the crawl method
    listed,              \* what the latest iteration of the listing loop did
    supabase_config,     \* main: which of url / anon_key are set
    is_github_actions,   \* main: os.getenv('GITHUB_ACTIONS') == 'true'
    exit_status,         \* "none" while running, else the process exit status
    input,               \* arguments of a function called on its own
    output               \* what that call returned

vars == <<pc, method, heap, self_articles, all_articles, new_articles,
          articles_to_process, srcIdx, connected, is_ci, max_articles,
          storeRows, storeHealthy, existing_urls, existing_titles, dedupQuery, max_concurrent, sem, task,
          insertCalls, insertExecuted, saveReport, result, listed,
          supabase_config, is_github_actions, exit_status, input, output>>

\* Arguments and return value of a function called on its own.
callVars == <<input, output>>

\* What only main reads or writes.
mainVars == <<supabase_config, is_github_actions, exit_status>>

\* --------------------------------------------------------------- articles
\* The dict built by parse_html_content for one accepted list item.
NewArticle(item) ==
    [title |-> item.title, link |-> item.link, time |-> "Recent",
     source |-> "Yahoo Finance", content |-> "", full_time |-> ""]

\* Collides with the title comparison left out.
CollidesLinkOnly(h, lst, link, title) ==
    \E k \in 1..Len(lst) : h[lst[k]].link = link

\* any(existing['link'] == link or existing['title'] == title for existing in lst)
Collides(h, lst, link, title) ==
    \E k \in 1..Len(lst) : h[lst[k]].link = link \/ h[lst[k]].title = title

\* ---------------------------------------------------------------- listing
\* What a Source Fetcher call can give: no markup (the fetch failed, raised,
\* or the page could not be parsed: the callee returns a fresh []), or a
\* markup whose list items, after the title/href checks, are `items`.
FetchOutcomes ==
    {[ok |-> FALSE, items |-> <<>>]} \cup
    {[ok |-> TRUE, items |-> m] : m \in SeqsUpTo(Items, MaxItems)}

\* An item loop without the duplicate test.
RECURSIVE ParseItemsKeepsAll(_, _, _)
ParseItemsKeepsAll(h, sa, items) ==
    IF items = <<>> THEN [heap |-> h, articles |-> sa]
    ELSE ParseItemsKeepsAll(Append(h, NewArticle(Head(items))),
                            Append(sa, Len(h) + 1), Tail(items))

\* The item loop of parse_html_content: an item matching an article already
\* in self.articles is skipped, any other is appended to self.articles.
RECURSIVE ParseItems(_, _, _)
ParseItems(h, sa, items) ==
    IF items = <<>> THEN [heap |-> h, articles |-> sa]
    ELSE LET it == Head(items) IN
         IF Collides(h, sa, it.link, it.title)
         THEN ParseItems(h, sa, Tail(items))
         ELSE ParseItems(Append(h, NewArticle(it)), Append(sa, Len(h) + 1),
                         Tail(items))

\* parse_html_content returns self.articles itself (the whole accumulated
\* list); a failed fetch returns a fresh empty list and touches nothing.
FetchAndParse(h, sa, o) ==
    IF o.ok
    THEN LET r == ParseItems(h, sa, o.items) IN
         [heap |-> r.heap, articles |-> r.articles, returned |-> r.articles]
    ELSE [heap |-> h, articles |-> sa, returned |-> <<>>]

\* "if articles:" / "if fallback_articles:": a non-empty returned list is
\* appended to all_articles.
Extend(all, r) == [heap |-> r.heap, articles |-> r.articles, all |-> all \o r.returned]

\* ------------------------------------------------------------------ dedup
\* Phase 1: the loop "for article in all_articles: if not any(...): append".
RECURSIVE InternalDedupFrom(_, _, _)
InternalDedupFrom(h, acc, rest) ==
    IF rest = <<>> THEN acc
    ELSE LET a == Head(rest) IN
         IF Collides(h, acc, h[a].link, h[a].title)
         THEN InternalDedupFrom(h, acc, Tail(rest))
         ELSE InternalDedupFrom(h, Append(acc, a), Tail(rest))

\* A phase 1 that keeps every element of the aggregate.
InternalDedupKeepsAll(h, all) == all

InternalDedup(h, all) == InternalDedupFrom(h, <<>>, all)

\* IsDuplicate with the title test left out.
IsDuplicateUrlOnly(art, urls, titles) == art.link \in urls

\* The two tests of check_duplicates' loop body: "if url in existing_urls:
\* continue" and "if title in existing_titles: continue".
IsDuplicate(art, urls, titles) ==
    IF art.link \in urls THEN TRUE
    ELSE IF art.title \in titles THEN TRUE
    ELSE FALSE

\* Phase 2: SupabaseManager.check_duplicates.
RECURSIVE check_duplicates(_, _, _, _)
check_duplicates(h, articles, urls, titles) ==
    IF articles = <<>> THEN <<>>
    ELSE LET a == Head(articles)
             rest == check_duplicates(h, Tail(articles), urls, titles) IN
         IF IsDuplicate(h[a], urls, titles) THEN rest ELSE <<a>> \o rest

\* The body of SupabaseManager.get_existing_articles: the two key sets of
\* the table, or two empty sets when there is no client or the select fails.
get_existing_articles(client, healthy, rows) ==
    IF ~client THEN [kind |-> "tuple", urls |-> {}, titles |-> {}]
    ELSE IF healthy
    THEN [kind |-> "tuple", urls |-> {r.link : r \in rows},
          titles |-> {r.title : r \in rows}]
    ELSE [kind |-> "tuple", urls |-> {}, titles |-> {}]

\* get_existing_articles and insert_articles are "async def": a call
\* expression without await evaluates to a coroutine object and runs nothing.
QueryAwaited == FALSE
InsertAwaited == FALSE

Coroutine == [kind |-> "coroutine", urls |-> {}, titles |-> {}]

\* The value of the call expression at the call site.
CallGetExisting(client, healthy, rows) ==
    IF QueryAwaited THEN get_existing_articles(client, healthy, rows)
    ELSE Coroutine

\* "existing_urls, existing_titles = <value>": a coroutine object is not
\* iterable, the unpacking raises TypeError.
Unpackable(v) == v.kind = "tuple"

\* An except branch that gives up instead: nothing is new.
DedupQueryFailedDropsAll(articles) == <<>>

\* The except branch of the phase-2 try: all phase-1 survivors are new.
DedupQueryFailed(articles) == articles

\* ------------------------------------------------------------- enrichment
IsoTime == "2024-05-01T10:00:00.000Z"

EmptyDetails == [content |-> "", full_time |-> ""]

\* What _extract_article_details returns for a page it could parse: the
\* joined paragraphs ("" when there is no container or no fragment) and the
\* time of the first matching selector, else "Recent".
ExtractedDetails == [content : {"", "body"}, full_time : {"Recent", IsoTime}]

\* What get_article_content returns to wait_for: the extracted details, or
\* {"content": "", "full_time": ""} from _extract_article_details' own except
\* branch and from each of its three except branches.
FetchReturns ==
    {[outcome |-> "ok", details |-> d] : d \in ExtractedDetails} \cup
    {[outcome |-> o, details |-> EmptyDetails] :
        o \in {"extract_error", "req_timeout", "req_error", "fetch_exc"}}

NewTask ==
    [st |-> "pending", outcome |-> "none", details |-> EmptyDetails,
     raised |-> FALSE, late |-> FALSE]

\* An acquire that never waits.
CanAcquireAlways(s) == TRUE

\* Semaphore.acquire returns at once only while the value is positive.
CanAcquire(s) == s > 0

\* A gather that resumes its caller at the first finished task.
AnySettled(t) == \E i \in 1..Len(t) : t[i].st = "done"

\* asyncio.gather(*tasks, return_exceptions=True) resumes its caller when
\* every task is done.
AllSettled(t) == \A i \in 1..Len(t) : t[i].st = "done"

\* Every task handed the first dict of the list.
TaskArticleFirst(articles, i) == articles[1]

\* The article a task was created for: enumerate(articles) hands task i the
\* i-th dict of the list.
TaskArticle(articles, i) == articles[i]

\* An assignment that also overwrites the title.
SetDetailsAndTitle(h, a, d) ==
    [h EXCEPT ![a].content = d.content, ![a].full_time = d.full_time,
              ![a].title = 0]

\* article['content'] = ...; article['full_time'] = ...
SetDetails(h, a, d) ==
    [h EXCEPT ![a].content = d.content, ![a].full_time = d.full_time]

\* A late response that is still assigned to the article.
LateEffectOverwrites(h, a) ==
    [h EXCEPT ![a].content = "body", ![a].full_time = IsoTime]

\* What an abandoned fetch's response, arriving after the timeout, does to
\* the heap: the cancelled coroutine is never resumed, nothing is assigned.
LateEffect(h, a) == h

\* A filter that lets every article through.
HasContentAlways(art) == TRUE

\* article.get('content', '').strip() is truthy.  Contents are "" or text
\* with a non-blank character (fragments are stripped and longer than 10).
HasContent(art) == art.content # ""

\* [article for article in articles_to_process if article.get('content', '').strip()]
RECURSIVE articles_with_content(_, _)
articles_with_content(h, articles) ==
    IF articles = <<>> THEN <<>>
    ELSE (IF HasContent(h[Head(articles)]) THEN <<Head(articles)>> ELSE <<>>)
         \o articles_with_content(h, Tail(articles))

\* new_articles[:max_articles] if max_articles else new_articles
Min(a, b) == IF a < b THEN a ELSE b
Truthy(n) == n # NoLimit /\ n # 0
CapArticles(articles, n) ==
    IF Truthy(n) THEN SubSeq(articles, 1, Min(n, Len(articles))) ELSE articles

\* concurrent_limit = 3 if self.is_ci_environment else 5
ConcurrentLimit(ci) == IF ci THEN CiConcurrentLimit ELSE LocalConcurrentLimit

\* What the store does with an insert that is actually executed.
InsertOutcomes == IF InsertAwaited THEN {"ok", "empty", "error"} ELSE {"not_run"}

\* "if success:" on the value of the call expression insert_articles(...): a
\* coroutine object is truthy; an awaited call gives the body's bool.
InsertSuccess(o) == IF InsertAwaited THEN o = "ok" ELSE TRUE

Stores == {r \in SUBSET Items : Cardinality(r) <= MaxRows}

\* ------------------------------------------------------------ environment
\* The environment variables _detect_ci_environment looks at; "" stands for
\* a variable that is unset or empty.
CiIndicators == {"GITHUB_ACTIONS", "CI", "CONTINUOUS_INTEGRATION", "GITLAB_CI",
                 "JENKINS_URL"}
EnvValues == {"", "true", "1"}
Envs == [CiIndicators -> EnvValues]

\* any(os.getenv(indicator) for indicator in ci_indicators)
detect_ci_environment(env) == \E v \in CiIndicators : env[v] # ""

\* is_github_actions = os.getenv('GITHUB_ACTIONS') == 'true'
IsGithubActions(env) == env["GITHUB_ACTIONS"] = "true"

\* A success branch taken only when some returned article has content.
SuccessBranchNeedsContent(h, articles) ==
    \E k \in 1..Len(articles) : h[articles[k]].content # ""

\* A success branch taken whatever was returned.
SuccessBranchAlways(h, articles) == TRUE

\* "if articles:" in main: the returned list is not empty.
SuccessBranch(h, articles) == articles # <<>>

\* The exit status of a run that took the failure branch without regard to
\* the context.
FailureExitAlwaysZero(gha) == "0"

\* "if is_github_actions: exit(1)" at the end of the failure branch.
FailureExit(gha) == IF gha THEN "1" ELSE "0"

\* ------------------------------------------------------- listing record
\* How a fetch ended: no markup, a markup without list items that pass the
\* title/href checks, or a markup with such items.
FetchEnd(o) == IF ~o.ok THEN "failed" ELSE IF o.items = <<>> THEN "empty" ELSE "some"

NoFetch == [ok |-> FALSE, items |-> <<>>]

\* The record before the first iteration of a listing loop.
NoListing ==
    [primary |-> "none", fallback |-> "none", added |-> 0, offered |-> 0,
     failed |-> 0, failedBefore |-> 0]

\* What the latest iteration of the listing loop did: how its fetches ended
\* and how many dicts it appended to self.articles.  `offered` counts the
\* list items, after the title/href checks, of all markups this loop has
\* parsed, `failed` the iterations of this loop whose fetches all failed,
\* failedBefore those of the loop of crawl_with_crawl4ai once main has gone
\* on to crawl_fallback.
SourceRecord(prev, primary, fallback, added, items) ==
    [primary |-> primary, fallback |-> fallback, added |-> added,
     offered |-> prev.offered + items,
     failed |-> prev.failed +
                (IF primary \in {"failed", "skipped"} /\ fallback = "failed"
                 THEN 1 ELSE 0),
     failedBefore |-> prev.failedBefore]

\* A loop that stops at the first source whose fetches all failed.
AfterSourceAbort(idx, allFailed) ==
    IF allFailed \/ idx = NumUrls THEN "dedup1" ELSE "listing"

\* "for url in self.urls" with "except Exception: continue": the loop goes
\* on to the next url whatever the iteration gave, and ends after the last.
AfterSource(idx, allFailed) ==
    IF idx = NumUrls THEN "dedup1" ELSE "listing"

\* ================================================================ actions
\* Fields a crawl method starts with.
ResetLocals ==
    /\ all_articles' = <<>>
    /\ new_articles' = <<>>
    /\ articles_to_process' = <<>>
    /\ existing_urls' = {}
    /\ existing_titles' = {}
    /\ dedupQuery' = "none"
    /\ task' = <<>>
    /\ sem' = 0
    /\ max_concurrent' = 0

\* The crawler after __init__, main about to call crawl_with_crawl4ai (the
\* start-up checks are behind it); a caller other than main may pass a
\* max_articles.
Init ==
    /\ pc = "listing"
    /\ method = "crawl4ai"
    /\ heap = <<>>
    /\ self_articles = <<>>
    /\ all_articles = <<>>
    /\ new_articles = <<>>
    /\ articles_to_process = <<>>
    /\ srcIdx = 1
    /\ connected \in BOOLEAN
    /\ \E env \in Envs :
         /\ is_ci = detect_ci_environment(env)
         /\ is_github_actions = IsGithubActions(env)
    /\ supabase_config = [url |-> TRUE, anon_key |-> TRUE]
    /\ exit_status = "none"
    /\ input = <<>>
    /\ output = <<>>
    /\ listed = NoListing
    /\ max_articles \in {NoLimit} \cup (0..MaxCap)
    /\ storeHealthy \in (IF connected THEN BOOLEAN ELSE {TRUE})
    /\ storeRows \in (IF connected /\ storeHealthy THEN Stores ELSE {{}})
    /\ existing_urls = {}
    /\ existing_titles = {}
    /\ dedupQuery = "none"
    /\ max_concurrent = 0
    /\ sem = 0
    /\ task = <<>>
    /\ insertCalls = <<>>
    /\ insertExecuted = 0
    /\ saveReport = "none"
    /\ result = <<>>

\* One iteration of "for url in self.urls": in crawl_with_crawl4ai the
\* primary fetch and, when it returned a falsy list, the fallback fetch; in
\* crawl_fallback the fallback fetch alone.
ListSource ==
    /\ pc = "listing"
    /\ srcIdx <= NumUrls
    /\ \E p \in (IF method = "crawl4ai" THEN FetchOutcomes ELSE {NoFetch}) :
         LET a == FetchAndParse(heap, self_articles, p)
             primary == IF method = "crawl4ai" THEN FetchEnd(p) ELSE "skipped" IN
         IF a.returned # <<>>
         THEN LET r == Extend(all_articles, a) IN
              /\ heap' = r.heap
              /\ self_articles' = r.articles
              /\ all_articles' = r.all
              /\ listed' = SourceRecord(listed, primary, "none",
                                         Len(r.heap) - Len(heap), Len(p.items))
              /\ pc' = AfterSource(srcIdx, FALSE)
         ELSE \E f \in FetchOutcomes :
                LET r == Extend(all_articles,
                                FetchAndParse(a.heap, a.articles, f)) IN
                /\ heap' = r.heap
                /\ self_articles' = r.articles
                /\ all_articles' = r.all
                /\ listed' = SourceRecord(listed, primary, FetchEnd(f),
                                           Len(r.heap) - Len(heap),
                                           Len(p.items) + Len(f.items))
                /\ pc' = AfterSource(srcIdx, ~p.ok /\ ~f.ok)
    /\ srcIdx' = srcIdx + 1
    /\ UNCHANGED <<method, new_articles, articles_to_process, connected, is_ci,
                   max_articles, storeRows, storeHealthy, existing_urls,
                   existing_titles, dedupQuery, max_concurrent, sem, task,
                   insertCalls, insertExecuted, saveReport, result>>
    /\ UNCHANGED mainVars
    /\ UNCHANGED callVars

\* Phase 1: self.articles = [] and the first-occurrence loop.
InternalDedupStep ==
    /\ pc = "dedup1"
    /\ self_articles' = InternalDedup(heap, all_articles)
    /\ pc' = "dedup2"
    /\ UNCHANGED <<method, heap, all_articles, new_articles,
                   articles_to_process, srcIdx, connected, is_ci, max_articles,
                   storeRows, storeHealthy, existing_urls, existing_titles,
                   dedupQuery, max_concurrent, sem, task, insertCalls,
                   insertExecuted, saveReport, result>>
    /\ UNCHANGED listed
    /\ UNCHANGED mainVars
    /\ UNCHANGED callVars

\* Phase 2: the store query and check_duplicates inside try/except, and the
\* early "return self.articles" when nothing is new.  all_articles is not
\* read after the phase-1 report and is dropped here, and with it the record
\* of a listing that gave candidates.
StoreDedup ==
    /\ pc = "dedup2"
    /\ LET v == CallGetExisting(connected, storeHealthy, storeRows)
           applied == connected /\ Unpackable(v)
           new == IF ~connected THEN self_articles
                  ELSE IF applied
                  THEN check_duplicates(heap, self_articles, v.urls, v.titles)
                  ELSE DedupQueryFailed(self_articles) IN
       /\ existing_urls' = IF applied THEN v.urls ELSE existing_urls
       /\ existing_titles' = IF applied THEN v.titles ELSE existing_titles
       /\ dedupQuery' = IF ~connected THEN "skipped"
                         ELSE IF applied THEN "applied" ELSE "raised"
       /\ new_articles' = new
       /\ pc' = IF new = <<>> THEN "returned" ELSE "cap"
       /\ result' = IF new = <<>> THEN self_articles ELSE result
    /\ all_articles' = <<>>
    /\ listed' = IF self_articles = <<>> THEN listed ELSE NoListing
    /\ UNCHANGED <<method, heap, self_articles,
                   articles_to_process, srcIdx, connected, is_ci, max_articles,
                   storeRows, storeHealthy, max_concurrent, sem, task,
                   insertCalls, insertExecuted, saveReport>>
    /\ UNCHANGED mainVars
    /\ UNCHANGED callVars

\* The cap on the number of articles and the choice of the concurrency limit.
CapStep ==
    /\ pc = "cap"
    /\ articles_to_process' = CapArticles(new_articles, max_articles)
    /\ max_concurrent' = ConcurrentLimit(is_ci)
    /\ pc' = "enrich_call"
    /\ UNCHANGED <<method, heap, self_articles, all_articles, new_articles,
                   srcIdx, connected, is_ci, max_articles, storeRows,
                   storeHealthy, existing_urls, existing_titles, dedupQuery,
                   sem, task, insertCalls, insertExecuted, saveReport, result>>
    /\ UNCHANGED listed
    /\ UNCHANGED mainVars
    /\ UNCHANGED callVars

\* What the scheduler and its tasks never touch.
orchVars == <<method, self_articles, all_articles, new_articles, srcIdx,
              connected, is_ci, max_articles, storeRows, storeHealthy,
              existing_urls, existing_titles, dedupQuery, insertCalls,
              insertExecuted, saveReport, result, listed, supabase_config,
              is_github_actions, exit_status, input, output>>

\* fetch_articles_content_for_articles up to the gather: the early return on
\* an empty list, else the semaphore and one task per list element.
StartEnrich ==
    /\ pc = "enrich_call"
    /\ IF articles_to_process = <<>>
       THEN /\ pc' = "enrich_returned"
            /\ UNCHANGED <<sem, task>>
       ELSE /\ sem' = max_concurrent
            /\ task' = [i \in 1..Len(articles_to_process) |-> NewTask]
            /\ pc' = "enriching"
    /\ UNCHANGED <<heap, articles_to_process, max_concurrent>>
    /\ UNCHANGED orchVars

\* "async with semaphore": tasks start in list order and the semaphore wakes
\* its waiters first-in first-out; the task then suspends in wait_for.
Acquire(i) ==
    /\ pc = "enriching"
    /\ task[i].st = "pending"
    /\ \A j \in 1..(i - 1) : task[j].st # "pending"
    /\ CanAcquire(sem)
    /\ sem' = sem - 1
    /\ task' = [task EXCEPT ![i].st = "fetching"]
    /\ UNCHANGED <<pc, heap, articles_to_process, max_concurrent>>
    /\ UNCHANGED orchVars

\* get_article_content returned within the timeout: the details are assigned
\* to the task's article and the semaphore is released on leaving the block.
Complete(i) ==
    /\ pc = "enriching"
    /\ task[i].st = "fetching"
    /\ \E r \in FetchReturns :
         /\ heap' = SetDetails(heap, TaskArticle(articles_to_process, i), r.details)
         /\ task' = [task EXCEPT ![i].st = "done", ![i].outcome = r.outcome,
                                  ![i].details = r.details]
    /\ sem' = sem + 1
    /\ UNCHANGED <<pc, articles_to_process, max_concurrent>>
    /\ UNCHANGED orchVars

\* wait_for raised asyncio.TimeoutError: the fetch is abandoned and the
\* details are the empty pair.
WaitForTimeout(i) ==
    /\ pc = "enriching"
    /\ task[i].st = "fetching"
    /\ heap' = SetDetails(heap, TaskArticle(articles_to_process, i), EmptyDetails)
    /\ task' = [task EXCEPT ![i].st = "done", ![i].outcome = "wait_timeout",
                             ![i].details = EmptyDetails]
    /\ sem' = sem + 1
    /\ UNCHANGED <<pc, articles_to_process, max_concurrent>>
    /\ UNCHANGED orchVars

\* Any other exception inside the try block: the except branch stores the
\* default values and the task ends normally.
TaskException(i) ==
    /\ pc = "enriching"
    /\ task[i].st = "fetching"
    /\ heap' = SetDetails(heap, TaskArticle(articles_to_process, i), EmptyDetails)
    /\ task' = [task EXCEPT ![i].st = "done", ![i].outcome = "task_exc",
                             ![i].details = EmptyDetails]
    /\ sem' = sem + 1
    /\ UNCHANGED <<pc, articles_to_process, max_concurrent>>
    /\ UNCHANGED orchVars

\* The response of a fetch abandoned by wait_for arrives afterwards.
LateResponse(i) ==
    /\ pc \in {"enriching", "enrich_returned", "returned"}
    /\ i \in 1..Len(task)
    /\ task[i].outcome = "wait_timeout"
    /\ ~task[i].late
    /\ heap' = LateEffect(heap, TaskArticle(articles_to_process, i))
    /\ task' = [task EXCEPT ![i].late = TRUE]
    /\ UNCHANGED <<pc, articles_to_process, max_concurrent, sem>>
    /\ UNCHANGED orchVars

\* await asyncio.gather(...) resumes and the scheduler returns.
GatherReturn ==
    /\ pc = "enriching"
    /\ AllSettled(task)
    /\ pc' = "enrich_returned"
    /\ UNCHANGED <<heap, articles_to_process, max_concurrent, sem, task>>
    /\ UNCHANGED orchVars

\* Stage 4: the articles with content go to insert_articles, then
\* self.articles = articles_to_process and the method returns it.
Handoff ==
    /\ pc = "enrich_returned"
    /\ method \in {"crawl4ai", "fallback"}
    /\ LET batch == articles_with_content(heap, articles_to_process)
           quiet == IF method = "crawl4ai" THEN "nothing" ELSE "none"
           failed == IF method = "crawl4ai" THEN "failed" ELSE "none" IN
       IF connected /\ batch # <<>>
       THEN \E o \in InsertOutcomes :
              /\ insertCalls' = Append(insertCalls,
                                       [k \in 1..Len(batch) |-> heap[batch[k]]])
              /\ insertExecuted' = insertExecuted + (IF InsertAwaited THEN 1 ELSE 0)
              /\ storeRows' = IF o = "ok"
                               THEN storeRows \cup
                                    {[link |-> heap[batch[k]].link,
                                      title |-> heap[batch[k]].title] :
                                         k \in 1..Len(batch)}
                               ELSE storeRows
              /\ saveReport' = IF InsertSuccess(o) THEN "saved" ELSE failed
       ELSE /\ saveReport' = IF connected THEN quiet ELSE saveReport
            /\ UNCHANGED <<insertCalls, insertExecuted, storeRows>>
    /\ self_articles' = articles_to_process
    /\ result' = articles_to_process
    /\ pc' = "returned"
    /\ UNCHANGED <<method, heap, all_articles, new_articles,
                   articles_to_process, srcIdx, connected, is_ci, max_articles,
                   storeHealthy, existing_urls, existing_titles, dedupQuery,
                   max_concurrent, sem, task>>
    /\ UNCHANGED listed
    /\ UNCHANGED mainVars
    /\ UNCHANGED callVars

\* main: "if not articles: articles = await crawler.crawl_fallback(...)".
MainFallback ==
    /\ pc = "returned"
    /\ method = "crawl4ai"
    /\ result = <<>>
    /\ method' = "fallback"
    /\ pc' = "listing"
    /\ srcIdx' = 1
    /\ ResetLocals
    /\ UNCHANGED <<heap, self_articles, connected, is_ci, max_articles,
                   storeRows, storeHealthy, insertCalls, insertExecuted,
                   saveReport, result>>
    /\ listed' = [NoListing EXCEPT !.failedBefore = listed.failed]
    /\ UNCHANGED mainVars
    /\ UNCHANGED callVars

\* main after the crawl: "if articles:" the success branch, else the failure
\* branch with its exit(1) under GitHub Actions; a main that returns ends the
\* process with status 0.
MainFinish ==
    /\ pc = "returned"
    /\ method \in {"crawl4ai", "fallback"}
    /\ method = "crawl4ai" => result # <<>>
    /\ pc' = IF SuccessBranch(heap, result) THEN "success" ELSE "failure"
    /\ exit_status' = IF SuccessBranch(heap, result) THEN "0"
                      ELSE FailureExit(is_github_actions)
    /\ UNCHANGED <<method, heap, self_articles, all_articles, new_articles,
                   articles_to_process, srcIdx, connected, is_ci, max_articles,
                   storeRows, storeHealthy, existing_urls, existing_titles,
                   dedupQuery, max_concurrent, sem, task, insertCalls,
                   insertExecuted, saveReport, result, listed,
                   supabase_config, is_github_actions, input, output>>

TaskStep ==
    \E i \in 1..Len(task) :
       \/ Acquire(i)
       \/ Complete(i)
       \/ WaitForTimeout(i)
       \/ TaskException(i)
       \/ LateResponse(i)

Next ==
    \/ ListSource
    \/ InternalDedupStep
    \/ StoreDedup
    \/ CapStep
    \/ StartEnrich
    \/ TaskStep
    \/ GatherReturn
    \/ Handoff
    \/ MainFallback
    \/ MainFinish

Spec == Init /\ [][Next]_vars

\* ------------------------------------------- the scheduler on its own
\* fetch_articles_content_for_articles called with any list of up to
\* MaxTasks articles and any limit in 1..MaxConcurrent.
InitEnrich ==
    /\ pc = "enrich_call"
    /\ method = "direct"
    /\ \E n \in 0..MaxTasks :
         /\ heap = [i \in 1..n |-> NewArticle([link |-> i, title |-> i])]
         /\ articles_to_process = [i \in 1..n |-> i]
    /\ max_concurrent \in 1..MaxConcurrent
    /\ self_articles = articles_to_process
    /\ all_articles = <<>>
    /\ new_articles = <<>>
    /\ srcIdx = 1
    /\ connected = FALSE
    /\ is_ci = FALSE
    /\ max_articles = NoLimit
    /\ storeRows = {}
    /\ storeHealthy = TRUE
    /\ existing_urls = {}
    /\ existing_titles = {}
    /\ dedupQuery = "none"
    /\ sem = 0
    /\ task = <<>>
    /\ insertCalls = <<>>
    /\ insertExecuted = 0
    /\ saveReport = "none"
    /\ result = <<>>
    /\ listed = NoListing
    /\ supabase_config = [url |-> TRUE, anon_key |-> TRUE]
    /\ is_github_actions = FALSE
    /\ exit_status = "none"
    /\ input = <<>>
    /\ output = <<>>

NextEnrich ==
    \/ StartEnrich
    \/ TaskStep
    \/ GatherReturn

\* The event loop keeps running ready tasks, and every fetch ends: requests
\* has its own timeout and wait_for bounds the whole call.
SpecEnrich == InitEnrich /\ [][NextEnrich]_vars /\ WF_vars(NextEnrich)

\* ------------------------------------------- the two dedup phases alone
\* Any aggregate of up to MaxLen article dicts and any Existing-Key Set.
InitDedup ==
    /\ pc = "dedup_input"
    /\ method = "pure"
    /\ \E m \in SeqsUpTo(Items, MaxLen) :
         /\ heap = [k \in 1..Len(m) |-> NewArticle(m[k])]
         /\ all_articles = [k \in 1..Len(m) |-> k]
    /\ existing_urls \in SUBSET Links
    /\ existing_titles \in SUBSET Titles
    /\ self_articles = <<>>
    /\ new_articles = <<>>
    /\ articles_to_process = <<>>
    /\ srcIdx = 1
    /\ connected = FALSE
    /\ is_ci = FALSE
    /\ max_articles = NoLimit
    /\ storeRows = {}
    /\ storeHealthy = TRUE
    /\ dedupQuery = "none"
    /\ max_concurrent = 0
    /\ sem = 0
    /\ task = <<>>
    /\ insertCalls = <<>>
    /\ insertExecuted = 0
    /\ saveReport = "none"
    /\ result = <<>>
    /\ listed = NoListing
    /\ supabase_config = [url |-> TRUE, anon_key |-> TRUE]
    /\ is_github_actions = FALSE
    /\ exit_status = "none"
    /\ input = <<>>
    /\ output = <<>>

\* The phase-1 loop applied to the aggregate.
ApplyInternalDedup ==
    /\ pc = "dedup_input"
    /\ self_articles' = InternalDedup(heap, all_articles)
    /\ pc' = "phase1_done"
    /\ UNCHANGED <<method, heap, all_articles, new_articles,
                   articles_to_process, srcIdx, connected, is_ci, max_articles,
                   storeRows, storeHealthy, existing_urls, existing_titles,
                   dedupQuery, max_concurrent, sem, task, insertCalls,
                   insertExecuted, saveReport, result>>
    /\ UNCHANGED listed
    /\ UNCHANGED mainVars
    /\ UNCHANGED callVars

\* check_duplicates(articles, existing_urls, existing_titles) applied to it.
ApplyCheckDuplicates ==
    /\ pc = "dedup_input"
    /\ new_articles' = check_duplicates(heap, all_articles, existing_urls,
                                        existing_titles)
    /\ pc' = "phase2_done"
    /\ UNCHANGED <<method, heap, self_articles, all_articles,
                   articles_to_process, srcIdx, connected, is_ci, max_articles,
                   storeRows, storeHealthy, existing_urls, existing_titles,
                   dedupQuery, max_concurrent, sem, task, insertCalls,
                   insertExecuted, saveReport, result>>
    /\ UNCHANGED listed
    /\ UNCHANGED mainVars
    /\ UNCHANGED callVars

NextDedup ==
    \/ ApplyInternalDedup
    \/ ApplyCheckDuplicates

SpecDedup == InitDedup /\ [][NextDedup]_vars

\* ------------------------------------------------ the start-up of main
\* A check of the url alone.
EnvCompleteUrlOnly(config) == config.url

\* The negation of "if not supabase_config['url'] or not
\* supabase_config['anon_key']".
EnvComplete(config) == config.url /\ config.anon_key

\* main at its first statement: any environment, any store.
InitStartup ==
    /\ pc = "env_check"
    /\ method = "main"
    /\ supabase_config \in [url : BOOLEAN, anon_key : BOOLEAN]
    /\ \E env \in Envs : is_github_actions = IsGithubActions(env)
    /\ exit_status = "none"
    /\ input = <<>>
    /\ output = <<>>
    /\ storeHealthy \in BOOLEAN
    /\ storeRows \in (IF storeHealthy THEN Stores ELSE {{}})
    /\ connected = FALSE
    /\ is_ci = FALSE
    /\ heap = <<>>
    /\ self_articles = <<>>
    /\ all_articles = <<>>
    /\ new_articles = <<>>
    /\ articles_to_process = <<>>
    /\ srcIdx = 1
    /\ max_articles = NoLimit
    /\ existing_urls = {}
    /\ existing_titles = {}
    /\ dedupQuery = "none"
    /\ max_concurrent = 0
    /\ sem = 0
    /\ task = <<>>
    /\ insertCalls = <<>>
    /\ insertExecuted = 0
    /\ saveReport = "none"
    /\ result = <<>>
    /\ listed = NoListing

\* What no start-up step touches: the crawler does not exist yet.
crawlerVars == <<method, heap, self_articles, all_articles, new_articles,
                 articles_to_process, srcIdx, is_ci, max_articles, storeRows,
                 storeHealthy, dedupQuery, max_concurrent, sem, task,
                 insertCalls, insertExecuted, saveReport, result, listed,
                 supabase_config, is_github_actions, input, output>>

\* Step 1: the check of the two required environment variables; both of its
\* branches end in exit(1).
EnvCheck ==
    /\ pc = "env_check"
    /\ IF EnvComplete(supabase_config)
       THEN pc' = "connect_test" /\ UNCHANGED exit_status
       ELSE pc' = "exited" /\ exit_status' = "1"
    /\ UNCHANGED <<connected, existing_urls, existing_titles>>
    /\ UNCHANGED crawlerVars

\* Step 2: test_manager = create_supabase_manager(...); create_client either
\* gives a client or raises, and without a client the process exits.
ConnectTest ==
    /\ pc = "connect_test"
    /\ \E ok \in BOOLEAN :
         /\ connected' = ok
         /\ IF ok
            THEN pc' = "query_test" /\ UNCHANGED exit_status
            ELSE pc' = "exited" /\ exit_status' = "1"
    /\ UNCHANGED <<existing_urls, existing_titles>>
    /\ UNCHANGED crawlerVars

\* Step 3: "existing_urls, existing_titles = test_manager.
\* get_existing_articles()" inside try/except Exception with exit(1).
QueryTest ==
    /\ pc = "query_test"
    /\ LET v == CallGetExisting(connected, storeHealthy, storeRows) IN
       IF Unpackable(v)
       THEN /\ existing_urls' = v.urls
            /\ existing_titles' = v.titles
            /\ pc' = "started"
            /\ UNCHANGED exit_status
       ELSE /\ pc' = "exited"
            /\ exit_status' = "1"
            /\ UNCHANGED <<existing_urls, existing_titles>>
    /\ UNCHANGED connected
    /\ UNCHANGED crawlerVars

NextStartup ==
    \/ EnvCheck
    \/ ConnectTest
    \/ QueryTest

SpecStartup == InitStartup /\ [][NextStartup]_vars

\* ------------------------------------------- functions called on their own
\* No crawl is under way: the variables of the pipeline at rest.
NoCrawl ==
    /\ heap = <<>>
    /\ self_articles = <<>>
    /\ all_articles = <<>>
    /\ new_articles = <<>>
    /\ articles_to_process = <<>>
    /\ srcIdx = 1
    /\ connected = FALSE
    /\ is_ci = FALSE
    /\ max_articles = NoLimit
    /\ storeRows = {}
    /\ storeHealthy = TRUE
    /\ existing_urls = {}
    /\ existing_titles = {}
    /\ dedupQuery = "none"
    /\ max_concurrent = 0
    /\ sem = 0
    /\ task = <<>>
    /\ insertCalls = <<>>
    /\ insertExecuted = 0
    /\ saveReport = "none"
    /\ result = <<>>
    /\ listed = NoListing
    /\ supabase_config = [url |-> TRUE, anon_key |-> TRUE]
    /\ is_github_actions = FALSE
    /\ exit_status = "none"

\* What a call of a function on its own leaves alone.
crawlVars == <<method, heap, self_articles, all_articles, new_articles,
               articles_to_process, srcIdx, connected, is_ci, max_articles,
               storeRows, storeHealthy, existing_urls, existing_titles,
               dedupQuery, max_concurrent, sem, task, insertCalls,
               insertExecuted, saveReport, result, listed, supabase_config,
               is_github_actions, exit_status, input>>

\* ---------------------------------------------------------- is_within_hours
\* A time text is a sequence of pieces: a decimal digit, one of the marker
\* words the function looks for ("Hour" is the hour marker with a capital,
\* "minute" also stands for its Chinese form, "now" for "just now" and the
\* Chinese forms), or other text ("x").
Digits == {"1", "3"}
TextPieces == Digits \cup {"minute", "hour", "Hour", "now", "x"}
TimeTexts == SeqsUpTo(TextPieces, MaxText)

DigitValue(c) == IF c = "1" THEN 1 ELSE 3

\* str(time_text).lower().strip()
Lower(t) == [i \in 1..Len(t) |-> IF t[i] = "Hour" THEN "hour" ELSE t[i]]

\* 'word' in time_text
Contains(t, word) == \E i \in 1..Len(t) : t[i] = word

\* re.search(r'(\d+)', time_text): the leftmost digit and the longest run of
\* digits from it; 0 stands for no match.
MatchStart(t) ==
    IF \E i \in 1..Len(t) : t[i] \in Digits
    THEN CHOOSE i \in 1..Len(t) :
            t[i] \in Digits /\ \A j \in 1..(i - 1) : t[j] \notin Digits
    ELSE 0

\* int(hours_match.group(1))
RECURSIVE IntFrom(_, _, _)
IntFrom(t, i, acc) ==
    IF i <= Len(t) /\ t[i] \in Digits
    THEN IntFrom(t, i + 1, acc * 10 + DigitValue(t[i]))
    ELSE acc

\* A comparison that leaves the limit itself out.
WithinLimitStrict(hours, max_hours) == hours < max_hours

\* return hours <= max_hours
WithinLimit(hours, max_hours) == hours <= max_hours

is_within_hours(time_text, max_hours) ==
    IF time_text = <<>> THEN TRUE
    ELSE LET t == Lower(time_text) IN
         IF Contains(t, "minute") THEN TRUE
         ELSE IF Contains(t, "hour")
         THEN IF MatchStart(t) # 0
              THEN WithinLimit(IntFrom(t, MatchStart(t), 0), max_hours)
              ELSE TRUE
         ELSE IF Contains(t, "now") THEN TRUE
         ELSE TRUE

InitRecency ==
    /\ pc = "call"
    /\ method = "is_within_hours"
    /\ NoCrawl
    /\ input \in [time_text : TimeTexts, max_hours : 0..MaxHours]
    /\ output = <<>>

CallIsWithinHours ==
    /\ pc = "call"
    /\ method = "is_within_hours"
    /\ output' = is_within_hours(input.time_text, input.max_hours)
    /\ pc' = "called"
    /\ UNCHANGED crawlVars

NextRecency == CallIsWithinHours

SpecRecency == InitRecency /\ [][NextRecency]_vars

\* ------------------------------------------------------ _convert_time_to_iso
\* A raw time string is a sequence of pieces: a calendar date, the letter T,
\* a clock time, the letter Z, a plus sign, a minus sign, a zone offset, the
\* word Recent, or other text without any of these ("x").
TimePieces == {"date", "T", "time", "Z", "+", "-", "off", "Recent", "x"}
RawTimes == SeqsUpTo(TimePieces, MaxTime)

\* datetime.now(timezone.utc).isoformat()
NowIso == <<"date", "T", "time", "+", "off">>

\* 'T' in time_str and ('Z' in time_str or '+' in time_str)
LooksIso(s) == Contains(s, "T") /\ (Contains(s, "Z") \/ Contains(s, "+"))

convert_time_to_iso(time_str) ==
    IF time_str = <<>> \/ time_str = <<"Recent">> THEN NowIso
    ELSE IF LooksIso(time_str) THEN time_str
    ELSE NowIso

\* The published_at of convert_to_supabase_format(article).
convert_to_supabase_format(full_time) ==
    [published_at |-> convert_time_to_iso(full_time)]

InitTime ==
    /\ pc = "call"
    /\ method = "convert_to_supabase_format"
    /\ NoCrawl
    /\ input \in [full_time : RawTimes]
    /\ output = <<>>

CallConvert ==
    /\ pc = "call"
    /\ method = "convert_to_supabase_format"
    /\ output' = convert_to_supabase_format(input.full_time)
    /\ pc' = "called"
    /\ UNCHANGED crawlVars

NextTime == CallConvert

SpecTime == InitTime /\ [][NextTime]_vars

\* ------------------------------------------------- _extract_article_details
\* A paragraph of the content container: whether its class holds 'yf-',
\* whether it lies in the first read-more wrapper, the length of its stripped
\* text and whether the text holds 'Read the original article' (a text that
\* does is longer than the phrase).
ParLens == {0, MinFragment - 1, MinFragment, MinFragment + 1, 3 * MinFragment}
Paragraphs ==
    {p \in [marked : BOOLEAN, wrapped : BOOLEAN, len : ParLens, boiler : BOOLEAN] :
        p.boiler => p.len = 3 * MinFragment}

\* What a time selector finds: no element, or the first element it matches
\* with its datetime attribute and its stripped text, "" when missing or
\* empty; the values name the selector they belong to.
TimeElements(k) ==
    {[found |-> FALSE, datetime |-> "", text |-> ""]} \cup
    [found : {TRUE}, datetime : {"", <<"datetime", k>>}, text : {"", <<"text", k>>}]

\* A detail page: whether BeautifulSoup and the selectors work on it, whether
\* one of the container selectors matches, the paragraphs of the container
\* in document order, and what each of the four time selectors finds.
Markups ==
    [parses : BOOLEAN, container : BOOLEAN,
     paragraphs : SeqsUpTo(Paragraphs, MaxPars),
     t1 : TimeElements(1), t2 : TimeElements(2),
     t3 : TimeElements(3), t4 : TimeElements(4)]

\* A length test that lets a text of exactly MinFragment characters through.
LongEnoughFromThreshold(n) == n >= MinFragment

\* "text and len(text) > 10"
LongEnough(n) == n # 0 /\ n > MinFragment

\* The positions of a list of elements, in document order.
Positions(ps) == [i \in 1..Len(ps) |-> i]

\* The loop over main_content.find_all('p', class_=...).
VisibleKept(p) == p.marked /\ LongEnough(p.len)

\* The loop over read_more_wrapper.find_all('p').
HiddenKept(p) == p.wrapped /\ LongEnough(p.len) /\ ~p.boiler

\* content_parts: the positions of the paragraphs whose text is appended.
content_parts(m) ==
    IF m.container
    THEN SelectSeq(Positions(m.paragraphs), LAMBDA i : VisibleKept(m.paragraphs[i]))
         \o SelectSeq(Positions(m.paragraphs), LAMBDA i : HiddenKept(m.paragraphs[i]))
    ELSE <<>>

\* A choice that prefers the visible text.
ElementTimeTextFirst(e) == IF e.text # "" THEN e.text ELSE e.datetime

\* time_element.get('datetime') or time_element.get_text(strip=True)
ElementTime(e) == IF e.datetime # "" THEN e.datetime ELSE e.text

\* The loop over time_selectors with its break at the first truthy value.
RECURSIVE FullTimeFrom(_)
FullTimeFrom(es) ==
    IF es = <<>> THEN ""
    ELSE IF Head(es).found /\ ElementTime(Head(es)) # "" THEN ElementTime(Head(es))
    ELSE FullTimeFrom(Tail(es))

\* The returned dict; the joined text is given as the list of its parts
\* (<<>> for ""), and an exception anywhere gives the empty pair.
extract_article_details(m) ==
    IF ~m.parses THEN [content |-> <<>>, full_time |-> ""]
    ELSE LET full_time == FullTimeFrom(<<m.t1, m.t2, m.t3, m.t4>>) IN
         [content |-> content_parts(m),
          full_time |-> IF full_time # "" THEN full_time ELSE "Recent"]

InitDetails ==
    /\ pc = "call"
    /\ method = "_extract_article_details"
    /\ NoCrawl
    /\ input \in Markups
    /\ output = <<>>

CallExtract ==
    /\ pc = "call"
    /\ method = "_extract_article_details"
    /\ output' = extract_article_details(input)
    /\ pc' = "called"
    /\ UNCHANGED crawlVars

NextDetails == CallExtract

SpecDetails == InitDetails /\ [][NextDetails]_vars

\* ------------------------------------------- parse_html_content: the tiers
\* The class attribute of a list item, by what the two class filters of
\* find_all answer for it (a filter is tried on every class name and on the
\* whole attribute); an item without a class attribute passes neither.
Classes == [strict : BOOLEAN, loose : BOOLEAN]

\* The anchor the loop body works on: found by its aria-label, or else by
\* its href; the length of its title (the aria-label, or the stripped text
\* when there is none) and its href, "" when it has none.
Anchors ==
    {a \in [aria : BOOLEAN, title_len : {0, MinTitle - 1, MinTitle},
            href : {"", "/path", "http://host/path", "path"}] :
        ~a.aria => a.href # ""}

\* A list item: its class, whether it holds an anchor with an href, and the
\* anchor the loop body finds in it, if any.
NoAnchor == [aria |-> FALSE, title_len |-> 0, href |-> ""]
ListItems ==
    {li \in [class : Classes, link : BOOLEAN, anchor : Anchors \cup {NoAnchor}] :
        /\ li.anchor = NoAnchor => ~li.link
        /\ (li.anchor # NoAnchor /\ li.anchor.href # "") => li.link
        /\ (li.anchor # NoAnchor /\ ~li.anchor.aria) => li.link}

Listings == SeqsUpTo(ListItems, MaxLis)

\* The three matchers.
StrictMatch(li) == li.class.strict
LooseMatch(li) == li.class.loose
LinkMatch(li) == li.link

\* The positions of the items the strict and the loose find_all return.
story_items_strict(lis) == SelectSeq(Positions(lis), LAMBDA i : StrictMatch(lis[i]))
story_items_loose(lis) == SelectSeq(Positions(lis), LAMBDA i : LooseMatch(lis[i]))

\* The loop body up to the duplicate test: the item gives a candidate.
GivesCandidate(li) ==
    /\ li.anchor # NoAnchor
    /\ li.anchor.title_len # 0 /\ ~(li.anchor.title_len < MinTitle)
    /\ li.anchor.href # ""
    /\ li.anchor.href \in {"/path", "http://host/path"}

\* A selection that moves on to the next tier when a tier gives no candidate.
StoryItemsFallThrough(lis) ==
    IF \E i \in 1..Len(lis) : StrictMatch(lis[i]) /\ GivesCandidate(lis[i])
    THEN story_items_strict(lis)
    ELSE IF \E i \in 1..Len(lis) : LooseMatch(lis[i]) /\ GivesCandidate(lis[i])
    THEN story_items_loose(lis)
    ELSE SelectSeq(Positions(lis), LAMBDA i : LinkMatch(lis[i]))

\* story_items: the positions of the items the loop goes through.
StoryItems(lis) ==
    IF Len(story_items_strict(lis)) > 0 THEN story_items_strict(lis)
    ELSE IF Len(story_items_loose(lis)) > 0 THEN story_items_loose(lis)
    ELSE SelectSeq(Positions(lis), LAMBDA i : LinkMatch(lis[i]))

\* The positions of the items appended to self.articles, which is empty
\* before the call; every item has a title and a link of its own.
parse_html_content(lis) ==
    SelectSeq(StoryItems(lis), LAMBDA i : GivesCandidate(lis[i]))

InitTiers ==
    /\ pc = "call"
    /\ method = "parse_html_content"
    /\ NoCrawl
    /\ input \in Listings
    /\ output = <<>>

CallParse ==
    /\ pc = "call"
    /\ method = "parse_html_content"
    /\ output' = parse_html_content(input)
    /\ pc' = "called"
    /\ UNCHANGED crawlVars

NextTiers == CallParse

SpecTiers == InitTiers /\ [][NextTiers]_vars

\* ================================================================= claims
Range(q) == {q[k] : k \in 1..Len(q)}

SameKey(a, b) == a.link = b.link \/ a.title = b.title

\* C1: phase-1 dedup of any aggregate: the output holds no two articles with
\* the same link and no two with the same title, it is a subsequence of the
\* input (input positions strictly increasing, so no longer than the input),
\* and every dropped element shares a link or a title with a retained
\* element that stands earlier in the input.  (Under SpecDedup the input
\* element at position k is the dict k.)
C1_Phase1Dedup ==
    pc = "phase1_done" =>
        /\ \A i, j \in 1..Len(self_articles) :
              i # j => /\ heap[self_articles[i]].link # heap[self_articles[j]].link
                       /\ heap[self_articles[i]].title # heap[self_articles[j]].title
        /\ Len(self_articles) <= Len(all_articles)
        /\ Range(self_articles) \subseteq Range(all_articles)
        /\ \A j \in 1..(Len(self_articles) - 1) :
              self_articles[j] < self_articles[j + 1]
        /\ \A k \in 1..Len(all_articles) :
              all_articles[k] \notin Range(self_articles) =>
                 \E j \in Range(self_articles) :
                    j < k /\ SameKey(heap[j], heap[all_articles[k]])

\* C1 witness: an aggregate of which two elements are kept and another is
\* dropped for its title alone (no kept element before it has its link).
C1_Witness ==
    /\ pc = "phase1_done"
    /\ Len(self_articles) = 2
    /\ \E k \in 1..Len(all_articles) :
          /\ all_articles[k] \notin Range(self_articles)
          /\ \A j \in Range(self_articles) :
                j < k => heap[j].link # heap[all_articles[k]].link

\* The input positions check_duplicates is to keep.
KeptPositions ==
    {k \in 1..Len(all_articles) :
        /\ heap[all_articles[k]].link \notin existing_urls
        /\ heap[all_articles[k]].title \notin existing_titles}

\* C2: check_duplicates returns exactly the input elements whose link is
\* not in urls and whose title is not in titles, in input order, and the
\* call changes neither the input list, nor its dicts, nor the two sets.
C2_CheckDuplicates ==
    /\ [](pc = "phase2_done" =>
            /\ Len(new_articles) = Cardinality(KeptPositions)
            /\ \A k \in KeptPositions :
                  new_articles[Cardinality({k2 \in KeptPositions : k2 <= k})]
                     = all_articles[k])
    /\ [][pc' = "phase2_done" =>
            /\ all_articles' = all_articles
            /\ heap' = heap
            /\ existing_urls' = existing_urls
            /\ existing_titles' = existing_titles]_vars

\* C2 witness: one element dropped for its link alone, one for its title
\* alone, and one kept.
C2_Witness ==
    /\ pc = "phase2_done"
    /\ Len(new_articles) >= 1
    /\ \E k \in 1..Len(all_articles) :
          /\ heap[all_articles[k]].link \in existing_urls
          /\ heap[all_articles[k]].title \notin existing_titles
    /\ \E k \in 1..Len(all_articles) :
          /\ heap[all_articles[k]].link \notin existing_urls
          /\ heap[all_articles[k]].title \in existing_titles

StoreUrls == {r.link : r \in storeRows}
StoreTitles == {r.title : r \in storeRows}

InStore(art) == art.link \in StoreUrls \/ art.title \in StoreTitles

\* The run is past phase 2 and has not gone through the hand-off.
AfterPhase2 == pc \in {"cap", "enrich_call", "enriching", "enrich_returned"}

\* C3 (as claimed): in a run with a connected store that answers the
\* existing-key query, from the end of phase 2 to the hand-off no article
\* whose link or title is among the store's keys is new or is in the list
\* that is enriched and from which the insert batch is taken.
C3_StoreDedupEffective ==
    (connected /\ storeHealthy /\ AfterPhase2) =>
        /\ \A k \in 1..Len(new_articles) : ~InStore(heap[new_articles[k]])
        /\ \A k \in 1..Len(articles_to_process) :
              ~InStore(heap[articles_to_process[k]])

\* The run took the early "return self.articles" of phase 2.
EarlyReturn == pc = "returned" /\ dedupQuery # "none" /\ task = <<>>

\* The existing-key query of this run failed: there is no connected store,
\* the store does not answer, or the try block raised.
QueryFailed ==
    /\ dedupQuery # "none"
    /\ (~connected \/ ~storeHealthy \/ dedupQuery \in {"skipped", "raised"})

\* C4: when the existing-key query fails the run goes on and every phase-1
\* survivor is new: new_articles, the list handed to the enrichment stage,
\* is the phase-1 output, the list enriched is its capped prefix, and the
\* run returns before enrichment only if phase 1 left nothing.
C4_FailOpen ==
    QueryFailed =>
        /\ AfterPhase2 => (new_articles = self_articles /\ new_articles # <<>>)
        /\ pc \in {"enrich_call", "enriching", "enrich_returned"} =>
              articles_to_process = CapArticles(self_articles, max_articles)
        /\ EarlyReturn => self_articles = <<>>

\* C4 witness: the query of a connected store raised and two survivors, one
\* of them already stored, go on to enrichment.
C4_Witness ==
    /\ pc = "enriching"
    /\ connected
    /\ dedupQuery = "raised"
    /\ Len(articles_to_process) = 2
    /\ \E k \in 1..Len(new_articles) : InStore(heap[new_articles[k]])

\* Tasks inside "async with semaphore": the permit is held.
InFlight == {i \in 1..Len(task) : task[i].st = "fetching"}

\* C5: the number of tasks between acquiring and releasing the semaphore
\* never exceeds max_concurrent (and the semaphore's value accounts for
\* exactly the permits held).
C5_BoundedConcurrency ==
    pc = "enriching" =>
        /\ Cardinality(InFlight) <= max_concurrent
        /\ sem = max_concurrent - Cardinality(InFlight)

\* C5 witness: the limit is reached while a further task waits for a permit.
C5_Witness ==
    /\ pc = "enriching"
    /\ Cardinality(InFlight) = max_concurrent
    /\ \E i \in 1..Len(task) : task[i].st = "pending"
    /\ \E i \in 1..Len(task) : task[i].st = "done"

\* C6: the scheduler returns, and when it has returned every task is done,
\* every permit is back and every article of the list has had its content
\* and full_time assigned from its own task.
C6_ReturnsWhenAllSettled ==
    /\ <>(pc = "enrich_returned")
    /\ [](pc = "enrich_returned" =>
            /\ Len(task) = Len(articles_to_process)
            /\ AllSettled(task)
            /\ (task # <<>> => sem = max_concurrent)
            /\ \A i \in 1..Len(task) :
                  /\ heap[articles_to_process[i]].content = task[i].details.content
                  /\ heap[articles_to_process[i]].full_time = task[i].details.full_time)

\* C6 witness: the scheduler has returned from a run of MaxTasks tasks of
\* which one succeeded, one timed out and one raised.
C6_Witness ==
    /\ pc = "enrich_returned"
    /\ Len(task) = MaxTasks
    /\ \E i \in 1..Len(task) : task[i].outcome = "ok" /\ task[i].details.content # ""
    /\ \E i \in 1..Len(task) : task[i].outcome = "wait_timeout"
    /\ \E i \in 1..Len(task) : task[i].outcome = "task_exc"

TimedOut(i) == task[i].outcome \in {"wait_timeout", "req_timeout"}

\* C7: a candidate whose fetch timed out (wait_for's timeout or the request's
\* own) has content "" and full_time "", its task is done and did not raise,
\* this stays so when the abandoned fetch's response arrives late, and no
\* batch given to the insert holds the candidate.
C7_TimeoutGivesEmpty ==
    \A i \in 1..Len(task) :
        TimedOut(i) =>
            /\ task[i].st = "done"
            /\ ~task[i].raised
            /\ heap[articles_to_process[i]].content = ""
            /\ heap[articles_to_process[i]].full_time = ""
            /\ \A b \in 1..Len(insertCalls) :
                  \A k \in 1..Len(insertCalls[b]) :
                     insertCalls[b][k].link # heap[articles_to_process[i]].link

\* C7 witness: the run is over, one candidate timed out in wait_for and its
\* response came late, and the other candidate went to the insert.
C7_Witness ==
    /\ pc = "returned"
    /\ insertCalls # <<>>
    /\ \E i \in 1..Len(task) : task[i].outcome = "wait_timeout" /\ task[i].late

Failed(i) == task[i].st = "done" /\ task[i].outcome # "ok"

\* C8: every task that failed leaves its candidate with content "" (and
\* full_time ""), every task that did not fail leaves its candidate with
\* the content and full_time its own fetch produced, a candidate whose task
\* is not done yet has been written by no task, no task ends by raising,
\* and the scheduler returns only when all tasks, failed or not, are done.
C8_FaultIsolation ==
    /\ \A i \in 1..Len(task) :
          LET a == heap[articles_to_process[i]] IN
          /\ Failed(i) => (a.content = "" /\ a.full_time = "")
          /\ (task[i].st = "done" /\ task[i].outcome = "ok") =>
                (a.content = task[i].details.content
                   /\ a.full_time = task[i].details.full_time)
          /\ task[i].st # "done" => (a.content = "" /\ a.full_time = "")
          /\ ~task[i].raised
    /\ pc = "enrich_returned" => AllSettled(task)

\* C8 witness: the scheduler has returned; the first task raised, a later
\* one timed out, and another still got its page's content.
C8_Witness ==
    /\ pc = "enrich_returned"
    /\ Len(task) >= 3
    /\ task[1].outcome = "task_exc"
    /\ \E i \in 1..Len(task) : TimedOut(i)
    /\ \E i \in 1..Len(task) :
          task[i].outcome = "ok" /\ heap[articles_to_process[i]].content = "body"

\* Whether a processed article of the run ended enrichment with content.
Processed == {articles_to_process[k] : k \in 1..Len(articles_to_process)}

\* C9: every record of every batch given to insert_articles has non-empty
\* content, and no processed candidate whose content is empty after
\* enrichment is in such a batch.
C9_HandoffHasContent ==
    \A b \in 1..Len(insertCalls) :
        /\ \A k \in 1..Len(insertCalls[b]) : insertCalls[b][k].content # ""
        /\ \A a \in Processed :
              heap[a].content = "" =>
                 \A k \in 1..Len(insertCalls[b]) :
                    insertCalls[b][k].link # heap[a].link

\* C9 witness: a batch went to the insert while another processed candidate
\* had ended enrichment without content.
C9_Witness ==
    /\ pc = "returned"
    /\ Len(insertCalls) = 1
    /\ \E a \in Processed : heap[a].content = ""

\* The crawl method has run through the hand-off.
HandedOff == pc = "returned" /\ task # <<>>

\* C10 (as claimed): with a connected store, once the run is through the
\* hand-off the insert has been executed exactly once if some processed
\* candidate has content, with exactly those candidates in input order, and
\* not at all otherwise.
C10_SingleInsertExecuted ==
    (HandedOff /\ connected) =>
        IF \E a \in Processed : HasContent(heap[a])
        THEN /\ insertExecuted = 1
             /\ Len(insertCalls) = 1
             /\ insertCalls[1] =
                   [k \in 1..Len(articles_with_content(heap, articles_to_process)) |->
                      heap[articles_with_content(heap, articles_to_process)[k]]]
        ELSE insertExecuted = 0 /\ insertCalls = <<>>

\* ------------------------------------------------------------------ C11
\* The listing loop of crawl_with_crawl4ai has handled a source.
SourceHandled ==
    pc \in {"listing", "dedup1"} /\ method = "crawl4ai" /\ listed.primary # "none"

\* C11 (as claimed): for the source the listing loop of crawl_with_crawl4ai
\* handled last, the fallback fetch was made when the primary fetch failed or
\* its markup held no candidate, and was not made when the primary markup
\* held a candidate.  (An iteration is one step, so the fallback of a source
\* comes before the primary fetch of the next.)
C11_PerSourceFallback ==
    SourceHandled =>
        /\ listed.primary \in {"failed", "empty"} => listed.fallback # "none"
        /\ listed.primary = "some" => listed.fallback = "none"

\* ------------------------------------------------------------------ C12
\* C12 (as claimed): the list given to the phase-1 loop is the concatenation
\* of what each source's own markup gave: its length is the sum over the
\* sources of the number of candidates their markup held, and no article
\* dict is in it twice (a dict comes from one source's markup only).
C12_AggregateIsConcatenation ==
    (pc = "dedup1" /\ method = "crawl4ai") =>
        /\ Len(all_articles) = listed.offered
        /\ \A j, k \in 1..Len(all_articles) :
              all_articles[j] = all_articles[k] => j = k

\* ------------------------------------------------------------------ C13
\* C13: whichever sources had all their fetches fail, the listing loop ends
\* only after every configured source was attempted, one after the other,
\* and every candidate a source yielded is in the list given to phase 1.
C13_SourceFailureIsolated ==
    /\ pc = "listing" => srcIdx \in 1..NumUrls
    /\ pc = "dedup1" => srcIdx = NumUrls + 1
    /\ pc \in {"listing", "dedup1"} =>
          \A a \in 1..Len(heap) : a \in Range(all_articles)

\* The loop has ended, a source had its primary and fallback fetch both
\* fail, and the last source, attempted after it, gave a candidate that is
\* in the list given to phase 1.
C13_Witness ==
    /\ pc = "dedup1"
    /\ method = "crawl4ai"
    /\ listed.failed >= 1
    /\ listed.added >= 1
    /\ Len(heap) \in Range(all_articles)

\* ------------------------------------------------------------------ C14
\* The listing gave candidates and, with a connected store that answers,
\* every one of them has its link or its title among the store's keys: no
\* candidate is new to the store.
NothingNewToStore ==
    /\ heap # <<>>
    /\ connected
    /\ storeHealthy
    /\ \A a \in 1..Len(heap) : InStore(heap[a])

\* C14 (as claimed): once phase 2 is over in a run whose candidates are all
\* known to the store, no detail fetch is made, insert_articles is not
\* invoked, the listing is not run a second time and the process does not
\* exit with a non-zero status.
C14_NoDataWhenNothingNew ==
    (NothingNewToStore /\ dedupQuery # "none") =>
        /\ pc \in {"returned", "success"}
        /\ task = <<>>
        /\ insertCalls = <<>>
        /\ method = "crawl4ai"
        /\ exit_status # "1"

\* ------------------------------------------------------------------ C15
\* main has taken its success branch or its failure branch.
Terminated == pc \in {"success", "failure"}

\* Every listing fetch of the run failed: the primary and the fallback fetch
\* of each source in crawl_with_crawl4ai, and the fetch of each source in the
\* crawl_fallback that main ran after it.
AllFetchesFailed == listed.failedBefore = NumUrls /\ listed.failed = NumUrls

C16_SuccessIffListed ==
    Terminated =>
        /\ pc = "success" <=> heap # <<>>
        /\ pc = "failure" <=> heap = <<>>
        /\ pc = "success" => exit_status = "0"

\* A run has ended in the success branch although every article it
\* processed ended enrichment with empty content and nothing was handed to
\* the store.
C16_Witness ==
    /\ pc = "success"
    /\ task # <<>>
    /\ \A k \in 1..Len(result) : heap[result[k]].content = ""
    /\ insertCalls = <<>>

\* ------------------------------------------------------------------ C17
\* No pipeline stage has done anything: no listing fetch, no detail fetch,
\* no call of insert_articles.
NoPipelineWork ==
    /\ srcIdx = 1
    /\ listed = NoListing
    /\ heap = <<>>
    /\ task = <<>>
    /\ insertCalls = <<>>

\* C17: once the environment check is over with the url or the key missing,
\* or the connection test is over without a client, the process has exited
\* with status 1 and no pipeline stage has done anything.
C17_StartupFailureIsFatal ==
    /\ (pc # "env_check" /\ (~supabase_config.url \/ ~supabase_config.anon_key))
          => (pc = "exited" /\ exit_status = "1" /\ NoPipelineWork)
    /\ (pc \notin {"env_check", "connect_test"} /\ ~connected)
          => (pc = "exited" /\ exit_status = "1" /\ NoPipelineWork)

\* With both variables set the connection test gave no client and the
\* process has exited with status 1.
C17_Witness ==
    /\ pc = "exited"
    /\ supabase_config.url
    /\ supabase_config.anon_key
    /\ ~connected
    /\ exit_status = "1"

InsertFailed ==
    /\ HandedOff
    /\ insertCalls # <<>>
    /\ \E k \in 1..Len(insertCalls[Len(insertCalls)]) :
          [link |-> insertCalls[Len(insertCalls)][k].link,
           title |-> insertCalls[Len(insertCalls)][k].title] \notin storeRows

\* C19 (as claimed): when the insert of the batch failed the run does not
\* report a successful save, and the method still returns the whole list it
\* processed, every article with the details its task stored.
C19_InsertFailureReported ==
    InsertFailed =>
        /\ saveReport # "saved"
        /\ result = articles_to_process
        /\ \A i \in 1..Len(task) :
              /\ heap[result[i]].content = task[i].details.content
              /\ heap[result[i]].full_time = task[i].details.full_time

\* ------------------------------------------------------------------ C20
\* Task i ends its fetch in this step.
Finishes(i) == task[i].st = "fetching" /\ task'[i].st = "done"

\* C20: no step of the scheduler or of a task changes the list it was given
\* or the number of article dicts, or the title, link, time or source of any
\* dict; and a dict whose content or full_time changes in a step is the one
\* at the list position of the task that ends its fetch in that step.
C20_EnrichmentFrame ==
    [][ /\ articles_to_process' = articles_to_process
        /\ Len(heap') = Len(heap)
        /\ \A a \in 1..Len(heap) :
              /\ heap'[a].title = heap[a].title
              /\ heap'[a].link = heap[a].link
              /\ heap'[a].time = heap[a].time
              /\ heap'[a].source = heap[a].source
              /\ (heap'[a].content # heap[a].content
                  \/ heap'[a].full_time # heap[a].full_time)
                    => \E i \in 1..Len(task) :
                          articles_to_process[i] = a /\ Finishes(i)
      ]_vars

\* The second task has finished with content before the first: the second
\* dict of the list holds that content, the first is untouched, and both
\* still have the link and title they started with.
C20_Witness ==
    /\ pc = "enriching"
    /\ Len(task) >= 2
    /\ task[1].st = "fetching"
    /\ task[2].st = "done"
    /\ heap[articles_to_process[2]].content = "body"
    /\ heap[articles_to_process[1]].content = ""
    /\ \A i \in 1..Len(task) :
          /\ heap[articles_to_process[i]].link = i
          /\ heap[articles_to_process[i]].title = i

\* ------------------------------------------------------------------ C21
\* C21: whatever the listing put into the aggregate, once the scheduler has
\* created its tasks there is one task per position of the list it was given
\* and no article dict is at two positions: no dict is the article of two
\* tasks.
C21_OneTaskPerCandidate ==
    task # <<>> =>
        /\ Len(task) = Len(articles_to_process)
        /\ \A i, j \in 1..Len(task) :
              TaskArticle(articles_to_process, i) = TaskArticle(articles_to_process, j)
                 => i = j

\* A pipeline run in which the listing gave two candidates from three
\* sources: two tasks, each done, each dict holding the details of its own
\* task.
C21_Witness ==
    /\ pc = "enrich_returned"
    /\ method = "crawl4ai"
    /\ Len(task) = 2
    /\ articles_to_process[1] # articles_to_process[2]
    /\ task[1].details.content = "body"
    /\ task[2].details.content = ""
    /\ heap[articles_to_process[1]].content = "body"
    /\ heap[articles_to_process[2]].content = ""

\* ------------------------------------------------------------------ C22
\* The text read as the claim reads it, whatever the case of its letters.
HasMarker(t, word) ==
    \E i \in 1..Len(t) : t[i] = word \/ (word = "hour" /\ t[i] = "Hour")

\* The integers embedded in the text: position of the first digit, position
\* of the last digit and value of each longest run of digits.
RECURSIVE RunValue(_, _, _)
RunValue(t, a, b) ==
    IF a = b THEN DigitValue(t[a])
    ELSE 10 * RunValue(t, a, b - 1) + DigitValue(t[b])

IsRun(t, a, b) ==
    /\ a <= b
    /\ \A k \in a..b : t[k] \in Digits
    /\ (a > 1 => t[a - 1] \notin Digits)
    /\ (b < Len(t) => t[b + 1] \notin Digits)

IsFirstRun(t, a, b) ==
    IsRun(t, a, b) /\ \A k \in 1..(a - 1) : t[k] \notin Digits

\* C22: is_within_hours returns a boolean for every text and every limit: it
\* is false exactly when the text has no minutes marker, has an hours marker
\* and its first embedded integer is greater than the limit.
C22_RecencyRules ==
    pc = "called" =>
        LET t == input.time_text
            n == input.max_hours IN
        /\ output \in BOOLEAN
        /\ output = FALSE <=>
              /\ ~HasMarker(t, "minute")
              /\ HasMarker(t, "hour")
              /\ \E a, b \in 1..Len(t) : IsFirstRun(t, a, b) /\ RunValue(t, a, b) > n

\* "13 Hour" with the limit 3: the first integer is 13, the answer is false.
C22_Witness ==
    /\ pc = "called"
    /\ input.time_text = <<"1", "3", "Hour">>
    /\ input.max_hours = 3
    /\ output = FALSE

\* ------------------------------------------------------------------ C23
\* The RFC 3339 timestamps: date, T, time, then Z or a signed offset.
Rfc3339 ==
    {<<"date", "T", "time", "Z">>,
     <<"date", "T", "time", "+", "off">>,
     <<"date", "T", "time", "-", "off">>}

\* C23 (as claimed): for every raw time string the published_at of the
\* record is an RFC 3339 timestamp; it is the raw value only when the raw
\* value is one, and the ingestion time when the raw value is empty,
\* "Recent" or not such a timestamp.
C23_PublishedAtIsTimestamp ==
    pc = "called" =>
        LET raw == input.full_time
            published_at == output.published_at IN
        /\ published_at \in Rfc3339
        /\ published_at = raw => raw \in Rfc3339
        /\ raw \notin Rfc3339 => published_at = NowIso

\* ------------------------------------------------------------------ C24
\* C24 (as claimed): with both credentials set, a client from the
\* connection test and a store that answers the query of existing keys, main
\* does not exit at its start-up checks.
C24_StartupPasses ==
    (EnvComplete(supabase_config) /\ connected /\ storeHealthy) => pc # "exited"

\* ------------------------------------------------------------------ C25
\* Paragraph i of the container is part of the returned content.
Included(i) == \E k \in 1..Len(output.content) : output.content[k] = i

\* The page was parsed and has a content container.
Extracted == pc = "called" /\ input.parses /\ input.container

\* C25 (as claimed): a paragraph with the content marker is in the content
\* exactly when its text has at least 10 characters, and a read-more
\* paragraph exactly when it has at least 10 characters and not the
\* boilerplate phrase.
C25_KeptFromTenCharacters ==
    Extracted =>
        \A i \in 1..Len(input.paragraphs) :
           LET p == input.paragraphs[i] IN
           Included(i) <=>
              \/ p.marked /\ p.len >= MinFragment
              \/ p.wrapped /\ p.len >= MinFragment /\ ~p.boiler

\* C25 (amended): a paragraph with the content marker is in the content
\* exactly when its text has more than 10 characters, and a read-more
\* paragraph exactly when it has more than 10 characters and not the
\* boilerplate phrase; a text of exactly 10 characters is dropped.
C25_KeptAboveTenCharacters ==
    Extracted =>
        \A i \in 1..Len(input.paragraphs) :
           LET p == input.paragraphs[i] IN
           Included(i) <=>
              \/ p.marked /\ p.len > MinFragment
              \/ p.wrapped /\ p.len > MinFragment /\ ~p.boiler

\* A marked paragraph of exactly 10 characters was dropped.
C25_Witness ==
    /\ Extracted
    /\ Len(input.paragraphs) = 1
    /\ input.paragraphs[1].marked
    /\ input.paragraphs[1].len = MinFragment
    /\ output.content = <<>>

\* ------------------------------------------------------------------ C26
\* The value a time selector yields: the datetime attribute of the element
\* it finds if there is one, else the element's visible text; "" if it
\* finds nothing.
Yields(e) ==
    IF ~e.found THEN "" ELSE IF e.datetime # "" THEN e.datetime ELSE e.text

\* The values of the four time selectors in their fixed order.
SelectorValues == <<Yields(input.t1), Yields(input.t2), Yields(input.t3), Yields(input.t4)>>

\* Some paragraph of the container qualifies for the content.
SomeQualifies ==
    \E i \in 1..Len(input.paragraphs) :
       VisibleKept(input.paragraphs[i]) \/ HiddenKept(input.paragraphs[i])

\* C26: _extract_article_details always returns a pair: on an internal error
\* both content and time are ""; otherwise the time is the value of the first
\* selector, in the fixed order, that yields a non-empty value, or "Recent"
\* when none does, and the content is "" when there is no container or no
\* paragraph qualifies.
C26_DetailsTotal ==
    pc = "called" =>
       /\ DOMAIN output = {"content", "full_time"}
       /\ ~input.parses => output.content = <<>> /\ output.full_time = ""
       /\ input.parses =>
            /\ \A k \in 1..4 :
                  (SelectorValues[k] # "" /\ \A j \in 1..(k - 1) : SelectorValues[j] = "")
                     => output.full_time = SelectorValues[k]
            /\ (\A k \in 1..4 : SelectorValues[k] = "") => output.full_time = "Recent"
            /\ (~input.container \/ ~SomeQualifies) => output.content = <<>>

\* The first selector found an element without a value, the second one an
\* element with both a datetime attribute and a text, and the attribute was
\* returned; the page had no container.
C26_Witness ==
    /\ pc = "called"
    /\ input.parses
    /\ ~input.container
    /\ input.t1.found /\ Yields(input.t1) = ""
    /\ input.t2.datetime # "" /\ input.t2.text # ""
    /\ output.full_time = input.t2.datetime
    /\ output.content = <<>>

\* ------------------------------------------------------------------ C27
\* The positions of the list items each matcher matches.
StrictMatches == {i \in 1..Len(input) : StrictMatch(input[i])}
LooseMatches == {i \in 1..Len(input) : LooseMatch(input[i])}
LinkMatches == {i \in 1..Len(input) : LinkMatch(input[i])}

\* The positions whose items were turned into candidates.
Found == Range(output)

\* The candidates are exactly the items of the set that give one.
FoundFrom(S) == Found = {i \in S : GivesCandidate(input[i])}

\* C27: the items examined are the strict matches if there is at least one,
\* otherwise the loose matches if there is at least one, otherwise every
\* list item with a hyperlink; a lower tier is not consulted once a higher
\* one matched, even if every item of that tier is rejected.
C27_TieredMatching ==
    pc = "called" =>
       /\ StrictMatches # {} => FoundFrom(StrictMatches)
       /\ (StrictMatches = {} /\ LooseMatches # {}) => FoundFrom(LooseMatches)
       /\ (StrictMatches = {} /\ LooseMatches = {}) => FoundFrom(LinkMatches)

\* The only strict match was rejected for its short title, a loose match
\* would have given a candidate, and nothing was found.
C27_Witness ==
    /\ pc = "called"
    /\ Len(input) = 2
    /\ StrictMatch(input[1]) /\ input[1].anchor.title_len = MinTitle - 1
    /\ ~StrictMatch(input[2]) /\ LooseMatch(input[2]) /\ GivesCandidate(input[2])
    /\ output = <<>>

\* ------------------------------------------------------------------ C28
\* C28: in every reachable state self.articles holds no two candidates with
\* the same link and no two with the same title, whether the list is being
\* filled by the listing extractor, was rebuilt by phase 1, was returned
\* early or was replaced by the capped list.
C28_SelfArticlesUnique ==
    \A i, j \in 1..Len(self_articles) :
       i # j => /\ heap[self_articles[i]].link # heap[self_articles[j]].link
                /\ heap[self_articles[i]].title # heap[self_articles[j]].title

\* The first markup offered two items and the listing extractor dropped the
\* second one, which matched the first.
C28_Witness ==
    /\ srcIdx = 2
    /\ listed.offered = 2
    /\ listed.added = 1
    /\ Len(self_articles) = 1

\* ------------------------------------------------------------------ C29
\* The survivors a limit n lets through: the first min(n, number of
\* survivors), or all of them without a limit.
FirstSurvivors(n) ==
    IF n = NoLimit THEN new_articles
    ELSE SubSeq(new_articles, 1, Min(n, Len(new_articles)))

\* C29 (as claimed): for every limit n >= 0 the candidates handed to the
\* enrichment are exactly the first min(n, number of survivors) survivors in
\* order, one fetch task is made for each of them and for no other, and
\* without a limit all survivors are enriched.
C29_CapIsPrefix ==
    pc \in {"enrich_call", "enriching", "enrich_returned"} =>
       /\ articles_to_process = FirstSurvivors(max_articles)
       /\ pc = "enriching" => Len(task) = Len(FirstSurvivors(max_articles))

====
